---- MODULE Spec2Model ----
(***************************************************************************)
(* Model of analogue_pal_tool: the 56-byte .pal codec (palette.rs), the    *)
(* 256-entry PNG palette and its tolerance matcher (png_helper.rs) and the *)
(* recolouring of a decoded screenshot (image_handler.rs).                 *)
(*                                                                         *)
(* Rust slices are 0-based, TLA+ sequences 1-based: byte i of a buffer is  *)
(* data[i + 1].                                                            *)
(***************************************************************************)
EXTENDS Integers, Sequences, FiniteSets, TLC

VARIABLES
    pc,           \* position of the running command
    file,         \* contents of the .pal file on disk (sequence of bytes)
    file_origin,  \* "input": supplied by the user, "saved": written by Palette::save
    palette,      \* the Palette value in memory, NoPalette when there is none
    footer_log,   \* what Palette::load logged about the footer
    ops,          \* number of load/save calls made so far
    pixel,        \* the source pixel handed to the matcher (RGB, alpha dropped)
    tolerance,    \* the tolerance handed to index_of_with_tolerance
    match_index,  \* Option<usize> returned by index_of_with_tolerance
    match_rgb,    \* Option<&Color> returned by the find of color_image
    image,        \* the decoded source image: width, height, px[<<x, y>>]
    output_scale, \* the requested scale factor
    coverage_log, \* the coverage message logged before matching, None before it
    position,     \* number of pixels of image.pixels() consumed by the loop
    image_buffer, \* palettize_image: the index buffer
    output_image, \* color_image: the image being recoloured
    processed,    \* color_image: pixels recoloured
    skipped,      \* color_image: pixels left alone
    match_log,    \* color_image: the message about the matched ratio
    written,      \* what PngHelper::save was handed, None before it
    template,     \* the Palette the matcher is given as template
    match_index_again, \* index_of_with_tolerance evaluated a second time
    match_rgb_again,   \* the find of color_image evaluated in a second run
    png,          \* a PngPalette under construction: pal and index, None before it
    png_populated,\* entries of png filled by its construction or by a push
    png_last,     \* the last call made on png and what it returned
    pal_files,    \* batch: the palette files after glob_paths
    input_images, \* batch: the input patterns as given on the command line
    output_image_file, \* batch: the output name as given on the command line
    merge,        \* batch: --merge
    max_columns,  \* batch: --columns
    merge_layout, \* batch: --layout
    job,          \* batch: per palette file, the progress of its color_images call
    writes,       \* batch: the image files written so far
    process       \* batch: "running", "panicking", "aborted" or "finished"

codecVars == <<pc, file, file_origin, palette, footer_log, ops>>

matcherVars == <<pixel, tolerance, match_index, match_rgb>>

recolorVars == <<image, output_scale, coverage_log, position, image_buffer,
                 output_image, processed, skipped, match_log, written>>

tieVars == <<template, match_index_again, match_rgb_again>>

pngVars == <<png, png_populated, png_last>>

batchVars == <<pal_files, input_images, output_image_file, merge, max_columns,
               merge_layout, job, writes, process>>

extraVars == <<tieVars, pngVars, batchVars>>

vars == <<pc, file, file_origin, palette, footer_log, ops,
          pixel, tolerance, match_index, match_rgb,
          image, output_scale, coverage_log, position, image_buffer,
          output_image, processed, skipped, match_log, written,
          template, match_index_again, match_rgb_again,
          png, png_populated, png_last,
          pal_files, input_images, output_image_file, merge, max_columns,
          merge_layout, job, writes, process>>

----------------------------------------------------------------------------
(* Bounds *)

\* longest palette file tried
MaxFileLen == 100
\* number of distinct byte patterns used to fill an input file
MaxSeed == 2
\* number of load/save calls in one run
MaxOps == 4

----------------------------------------------------------------------------
(* palette.rs: the Palette type and its default *)

NoPalette == [none |-> TRUE]

\* Option<T>: None and Some(x)
None == << >>

Some(x) == << x >>

\* Palette::default, the template
PaletteDefault ==
    [ bg      |-> << <<0, 0, 0>>, <<32, 32, 32>>, <<64, 64, 64>>, <<128, 128, 128>> >>,
      obj0    |-> << <<0, 255, 0>>, <<32, 255, 32>>, <<64, 255, 64>>, <<128, 255, 128>> >>,
      obj1    |-> << <<0, 0, 255>>, <<32, 32, 255>>, <<64, 64, 255>>, <<128, 128, 255>> >>,
      window  |-> << <<255, 0, 0>>, <<255, 32, 32>>, <<255, 64, 64>>, <<255, 128, 128>> >>,
      lcd_off |-> <<255, 0, 255>> ]

\* the footer written by Palette::save and looked for by Palette::load
Footer == <<129, 65, 80, 71, 66>>

\* macro data_to_array!(data, start): data[start..start + 3]
data_to_array(data, start) ==
    << data[start + 1], data[start + 2], data[start + 3] >>

\* macro data_to_multi_array!(data, start): four consecutive colours
data_to_multi_array(data, start) ==
    << data_to_array(data, start),
       data_to_array(data, start + 3),
       data_to_array(data, start + 6),
       data_to_array(data, start + 9) >>

InvalidSizeLess(data) == Len(data) < 56

\* Palette::load: the length test that panics
InvalidSize(data) == Len(data) # 56

FooterCorrectFirstByte(data) == data[51 + 1] = 129

\* Palette::load: the footer test
FooterCorrect(data) ==
    /\ data[51 + 1] = 129
    /\ data[52 + 1] = 65
    /\ data[53 + 1] = 80
    /\ data[54 + 1] = 71
    /\ data[55 + 1] = 66

BuildPaletteShifted(data) ==
    [ bg      |-> data_to_multi_array(data, 0),
      obj0    |-> data_to_multi_array(data, 12),
      obj1    |-> data_to_multi_array(data, 24),
      window  |-> data_to_multi_array(data, 36),
      lcd_off |-> data_to_array(data, 51) ]

\* Palette::load: the struct literal built from the bytes
BuildPalette(data) ==
    [ bg      |-> data_to_multi_array(data, 0),
      obj0    |-> data_to_multi_array(data, 12),
      obj1    |-> data_to_multi_array(data, 24),
      window  |-> data_to_multi_array(data, 36),
      lcd_off |-> data_to_array(data, 48) ]

\* into_iter().flatten().collect() of a Colors array
Flatten(colors) ==
    colors[1] \o colors[2] \o colors[3] \o colors[4]

SaveBytesSwapped(p) ==
    Flatten(p.bg) \o Flatten(p.obj1) \o Flatten(p.obj0)
        \o Flatten(p.window) \o p.lcd_off \o Footer

\* Palette::save: the bytes written, in the order of the write_all calls
SaveBytes(p) ==
    Flatten(p.bg) \o Flatten(p.obj0) \o Flatten(p.obj1)
        \o Flatten(p.window) \o p.lcd_off \o Footer

\* the 17 colours of a Palette in declaration order
Slots(p) == p.bg \o p.obj0 \o p.obj1 \o p.window \o << p.lcd_off >>

----------------------------------------------------------------------------
(* Input files *)

ByteSamples == {0, 65, 130, 255}

Pattern(seed, i) == (seed * 53 + i * (2 * seed + 7)) % 256

RawFile(len, seed) == [i \in 1..len |-> Pattern(seed, i - 1)]

FooterSamples ==
    {Footer} \cup { [Footer EXCEPT ![j] = v] : j \in 1..5, v \in ByteSamples }
             \cup { <<0, 0, 0, 0, 0>>, <<66, 71, 80, 65, 129>> }

WithFooter(data, f) ==
    [i \in 1..Len(data) |-> IF i > Len(data) - 5 THEN f[i - (Len(data) - 5)] ELSE data[i]]

InputFiles ==
    { RawFile(len, seed) : len \in 0..MaxFileLen, seed \in 0..MaxSeed }
        \cup { WithFooter(RawFile(len, seed), f) :
                 len \in 55..57, seed \in 0..MaxSeed, f \in FooterSamples }

----------------------------------------------------------------------------
(* The codec commands *)

\* the matcher works on the default template, once
TieIdle ==
    /\ template = PaletteDefault
    /\ match_index_again = None
    /\ match_rgb_again = None

\* no PngPalette is under construction
PngIdle ==
    /\ png = None
    /\ png_populated = {}
    /\ png_last = None

\* no batch is running
BatchIdle ==
    /\ pal_files = << >>
    /\ input_images = << >>
    /\ output_image_file = << >>
    /\ merge = FALSE
    /\ max_columns = 4
    /\ merge_layout = "Horizontal"
    /\ job = << >>
    /\ writes = {}
    /\ process = "running"

\* an image without pixels
NoImage == [width |-> 0, height |-> 0, px |-> << >>]

\* no recolouring is in progress
RecolorIdle ==
    /\ image = NoImage
    /\ output_scale = 1
    /\ coverage_log = None
    /\ position = 0
    /\ image_buffer = << >>
    /\ output_image = NoImage
    /\ processed = 0
    /\ skipped = 0
    /\ match_log = None
    /\ written = None

\* no matcher call is in progress
MatcherIdle ==
    /\ pixel = <<0, 0, 0>>
    /\ tolerance = 0
    /\ match_index = None
    /\ match_rgb = None

InitCodec ==
    /\ pc = "start"
    /\ file \in InputFiles
    /\ file_origin = "input"
    /\ palette = NoPalette
    /\ footer_log = "none"
    /\ ops = 0
    /\ MatcherIdle
    /\ RecolorIdle
    /\ TieIdle
    /\ PngIdle
    /\ BatchIdle

\* Palette::load on the current file (command Display)
Load ==
    /\ pc \in {"start", "saved"}
    /\ ops < MaxOps
    /\ ops' = ops + 1
    /\ IF InvalidSize(file)
       THEN /\ pc' = "panic_size"
            /\ palette' = NoPalette
            /\ footer_log' = "none"
       ELSE /\ pc' = "loaded"
            /\ footer_log' = IF FooterCorrect(file) THEN "correct" ELSE "incorrect"
            /\ palette' = BuildPalette(file)
    /\ UNCHANGED <<file, file_origin>>
    /\ UNCHANGED matcherVars
    /\ UNCHANGED recolorVars
    /\ UNCHANGED extraVars

\* Palette::save of the palette in memory
Save ==
    /\ pc = "loaded"
    /\ ops < MaxOps
    /\ ops' = ops + 1
    /\ file' = SaveBytes(palette)
    /\ file_origin' = "saved"
    /\ pc' = "saved"
    /\ UNCHANGED <<palette, footer_log>>
    /\ UNCHANGED matcherVars
    /\ UNCHANGED recolorVars
    /\ UNCHANGED extraVars

\* command CreateTemplatePal: Palette::default().save(..)
CreateTemplatePal ==
    /\ pc = "start"
    /\ ops < MaxOps
    /\ ops' = ops + 1
    /\ palette' = PaletteDefault
    /\ file' = SaveBytes(PaletteDefault)
    /\ file_origin' = "saved"
    /\ pc' = "saved"
    /\ UNCHANGED footer_log
    /\ UNCHANGED matcherVars
    /\ UNCHANGED recolorVars
    /\ UNCHANGED extraVars

NextCodec == Load \/ Save \/ CreateTemplatePal

SpecCodec == InitCodec /\ [][NextCodec]_vars

----------------------------------------------------------------------------
(* Claims about the codec, checked under SpecCodec *)

\* the bytes of the file still are the ones Palette::load was given
LoadedFromInput == pc = "loaded" /\ file_origin = "input"

\* C1: Palette::load of a file whose length is not 56 ends in the size panic
\* and leaves no Palette; only a 56-byte file is ever decoded.
C1_InvalidSizeRejected ==
    /\ (ops > 0 /\ file_origin = "input" /\ Len(file) # 56)
          => (pc = "panic_size" /\ palette = NoPalette)
    /\ (pc = "loaded" => Len(file) = 56)
    /\ (pc = "panic_size" => Len(file) # 56)

C1_Witness == pc = "panic_size" /\ Len(file) = 57 /\ palette = NoPalette

\* C2 as stated: a 56-byte file whose last five bytes are not the signature
\* makes Palette::load fail, no Palette is returned.
C2_FooterMismatchFails ==
    (ops > 0 /\ file_origin = "input" /\ Len(file) = 56 /\ SubSeq(file, 52, 56) # Footer)
        => (pc # "loaded" /\ palette = NoPalette)

\* C2 amended: such a file is reported (the footer is logged as incorrect,
\* and only then) but it is decoded all the same and a Palette is returned.
C2_FooterMismatchLogged ==
    LoadedFromInput =>
        /\ palette # NoPalette
        /\ (footer_log = "incorrect" <=> SubSeq(file, 52, 56) # Footer)
        /\ (footer_log = "correct" <=> SubSeq(file, 52, 56) = Footer)

C2_Witness ==
    /\ LoadedFromInput
    /\ footer_log = "incorrect"
    /\ file[52] = 129 /\ file[53] = 65 /\ file[54] = 80 /\ file[55] = 71 /\ file[56] # 66

\* C3: for an accepted file slot k, in declaration order, holds bytes 3k, 3k+1
\* and 3k+2; the groups start at offsets 0, 12, 24, 36 and 48; the last five
\* bytes do not influence the decoded colours.
C3_DecodePositional ==
    pc = "loaded" =>
        /\ \A k \in 0..16 :
              Slots(palette)[k + 1] = << file[3 * k + 1], file[3 * k + 2], file[3 * k + 3] >>
        /\ \A j \in 0..3 :
              /\ palette.bg[j + 1]     = SubSeq(file, 0 + 3 * j + 1, 0 + 3 * j + 3)
              /\ palette.obj0[j + 1]   = SubSeq(file, 12 + 3 * j + 1, 12 + 3 * j + 3)
              /\ palette.obj1[j + 1]   = SubSeq(file, 24 + 3 * j + 1, 24 + 3 * j + 3)
              /\ palette.window[j + 1] = SubSeq(file, 36 + 3 * j + 1, 36 + 3 * j + 3)
        /\ palette.lcd_off = SubSeq(file, 49, 51)
        /\ \A f \in FooterSamples :
              ~InvalidSize(WithFooter(file, f)) /\ BuildPalette(WithFooter(file, f)) = palette

C3_Witness ==
    /\ LoadedFromInput
    /\ footer_log = "correct"
    /\ palette.lcd_off # <<file[52], file[53], file[54]>>
    /\ Cardinality({Slots(palette)[k] : k \in 1..17}) = 17

\* C4: what Palette::save writes is 56 bytes ending in the signature, loading
\* it back gives the palette that was saved, and saving that again gives the
\* same bytes.
C4_RoundTrip ==
    /\ [](pc = "saved" => (Len(file) = 56 /\ SubSeq(file, 52, 56) = Footer))
    /\ [][pc = "saved" => (pc' = "loaded" /\ palette' = palette
                              /\ Slots(palette') = Slots(palette))]_vars
    /\ [][(pc = "loaded" /\ file_origin = "saved") => file' = file]_vars

C4_Witness ==
    /\ pc = "saved" /\ ops = 4
    /\ palette # PaletteDefault
    /\ Cardinality({Slots(palette)[k] : k \in 1..17}) = 17

----------------------------------------------------------------------------
(* palette.rs: the name <-> colour maps of a Palette *)

\* the slot names in declaration order, as formatted by the From impls
SlotNames ==
    << "bg_0", "bg_1", "bg_2", "bg_3",
       "obj0_0", "obj0_1", "obj0_2", "obj0_3",
       "obj1_0", "obj1_1", "obj1_2", "obj1_3",
       "window_0", "window_1", "window_2", "window_3",
       "lcd_off" >>

Max(S) == CHOOSE x \in S : \A y \in S : y <= x

Min(S) == CHOOSE x \in S : \A y \in S : x <= y

\* From<Palette> for HashMap<Color, String>: inserted in declaration order,
\* a later insert of an equal colour replaces the earlier name
TemplateColors(p) ==
    [ c \in { Slots(p)[k] : k \in 1..17 } |->
        SlotNames[Max({ k \in 1..17 : Slots(p)[k] = c })] ]

PaletteColorsShifted(p) ==
    [ name \in { SlotNames[k] : k \in 1..17 } |->
        Slots(p)[((CHOOSE k \in 1..17 : SlotNames[k] = name) % 17) + 1] ]

\* From<Palette> for HashMap<String, Color>
PaletteColors(p) ==
    [ name \in { SlotNames[k] : k \in 1..17 } |->
        Slots(p)[CHOOSE k \in 1..17 : SlotNames[k] = name] ]

----------------------------------------------------------------------------
(* png_helper.rs: PngPalette *)

\* PngPalette::SIZE
SIZE == 256 * 3

\* Vec<u8> from a Palette, as used by From<Palette> for PngPalette: the
\* 17 * 3 colour bytes in declaration order (the impl is not in palette.rs)
PaletteToVec(p) ==
    Flatten(p.bg) \o Flatten(p.obj0) \o Flatten(p.obj1)
        \o Flatten(p.window) \o p.lcd_off

PngPaletteTryFromShifted(value) ==
    IF Len(value) >= SIZE
    THEN [err |-> "ArrayTooBig"]
    ELSE [ pal   |-> [ i \in 1..SIZE |->
                         IF 1 < i /\ i <= Len(value) + 1 THEN value[i - 1] ELSE 255 ],
           index |-> 0 ]

\* TryFrom<&[u8]> for PngPalette
PngPaletteTryFrom(value) ==
    IF Len(value) >= SIZE
    THEN [err |-> "ArrayTooBig"]
    ELSE [ pal   |-> [ i \in 1..SIZE |-> IF i <= Len(value) THEN value[i] ELSE 255 ],
           index |-> 0 ]

\* From<Palette> for PngPalette
PngPaletteFrom(p) == PngPaletteTryFrom(PaletteToVec(p))

\* chunks_exact(3): the n-th colour of the table
Chunk(pal, n) == << pal[3 * n + 1], pal[3 * n + 2], pal[3 * n + 3] >>

\* u8::saturating_sub
saturating_sub(a, b) == IF a >= b THEN a - b ELSE 0

wrapping_add(a, b) == (a + b) % 256

\* u8::saturating_add
saturating_add(a, b) == IF a + b > 255 THEN 255 ELSE a + b

InWindowExclusive(c, color, tol) ==
    \A i \in 1..3 :
        /\ saturating_sub(color[i], tol) <= c[i]
        /\ c[i] < saturating_add(color[i], tol)

\* the closure of index_of_with_tolerance: every channel x of the table colour
\* c lies in color[i].saturating_sub(tolerance) ..= color[i].saturating_add(tolerance)
InWindow(c, color, tol) ==
    \A i \in 1..3 :
        /\ saturating_sub(color[i], tol) <= c[i]
        /\ c[i] <= saturating_add(color[i], tol)

\* PngPalette::index_of_with_tolerance: position of the first of the 256
\* table colours that satisfies the closure
index_of_with_tolerance(self, color, tol) ==
    LET hits == { n \in 0..255 : InWindow(Chunk(self.pal, n), color, tol) }
    IN  IF hits = {} THEN None ELSE Some(Min(hits))

----------------------------------------------------------------------------
(* image_handler.rs: the constants and the closure of color_image *)

ALMOST_ALL_COLORS == 16

TEMPLATE_TOLERANCE_UPPER == 8

TEMPLATE_TOLERANCE_LOWER == 8

\* the closure of the find in color_image, color being a key of template_colors
ColorImageMatches(color, color_rgb) ==
    \A i \in 1..3 :
        /\ color[i] <= saturating_add(color_rgb[i], TEMPLATE_TOLERANCE_UPPER)
        /\ color[i] >= saturating_sub(color_rgb[i], TEMPLATE_TOLERANCE_LOWER)

\* template_colors.keys().find(..): the keys that can be returned; a HashMap
\* iterates in an arbitrary order, so any matching key can be the first
ColorImageFind(template_colors, color_rgb) ==
    LET hits == { key \in DOMAIN template_colors : ColorImageMatches(key, color_rgb) }
    IN  IF hits = {} THEN { None } ELSE { Some(key) : key \in hits }

----------------------------------------------------------------------------
(* The matcher on its own: one pixel, one tolerance, the default template *)

\* largest tolerance a u8 holds
MaxTolerance == 255

Clip(v) == IF v < 0 THEN 0 ELSE IF v > 255 THEN 255 ELSE v

\* offsets applied to the template colours to obtain source pixels
PixelShifts == {-9, -8, 0, 8, 9}

Shifted(c, d) == [ i \in 1..3 |-> Clip(c[i] + d) ]

ShiftedChannel(c, ch, d) == [ i \in 1..3 |-> IF i = ch THEN Clip(c[i] + d) ELSE c[i] ]

PixelSamples ==
    { Shifted(Slots(PaletteDefault)[k], d) : k \in 1..17, d \in PixelShifts }
        \cup { ShiftedChannel(Slots(PaletteDefault)[k], 2, d) : k \in 1..17, d \in {-9, 9} }
        \cup { <<255, 255, 255>>, <<247, 250, 255>>, <<246, 255, 255>>, <<16, 16, 16>> }

\* let template: PngPalette = Palette::default().into()
DefaultTemplatePng == PngPaletteFrom(PaletteDefault)

InitMatcher ==
    /\ pc = "start"
    /\ file = << >>
    /\ file_origin = "input"
    /\ palette = NoPalette
    /\ footer_log = "none"
    /\ ops = 0
    /\ pixel \in PixelSamples
    /\ tolerance \in 0..MaxTolerance
    /\ match_index = None
    /\ match_rgb = None
    /\ RecolorIdle
    /\ TieIdle
    /\ PngIdle
    /\ BatchIdle

\* the index path: template.index_of_with_tolerance(color, tolerance) on the
\* PngPalette made from the template
IndexOfWithTolerance ==
    /\ pc = "start"
    /\ pc' = "matched_index"
    /\ match_index' = index_of_with_tolerance(PngPaletteFrom(template), pixel, tolerance)
    /\ UNCHANGED <<file, file_origin, palette, footer_log, ops, pixel, tolerance, match_rgb>>
    /\ UNCHANGED recolorVars
    /\ UNCHANGED extraVars

\* the RGB path: the find over the keys of the template's colour map
ColorImageFindKey ==
    /\ pc = "start"
    /\ pc' = "matched_rgb"
    /\ match_rgb' \in ColorImageFind(TemplateColors(template), pixel)
    /\ UNCHANGED <<file, file_origin, palette, footer_log, ops, pixel, tolerance, match_index>>
    /\ UNCHANGED recolorVars
    /\ UNCHANGED extraVars

NextMatcher == IndexOfWithTolerance \/ ColorImageFindKey

SpecMatcher == InitMatcher /\ [][NextMatcher]_vars

----------------------------------------------------------------------------
(* Claims about the matcher, checked under SpecMatcher *)

\* the colour table the index path searches: the default template, padded
TemplateTable == DefaultTemplatePng.pal

\* slot k (0..16) of the default template
TemplateSlot(k) == Slots(PaletteDefault)[k + 1]

\* the window of the claim, in unbounded integer arithmetic: every channel of
\* c lies in [max(0, p - t), min(255, p + t)]
MathWindow(c, p, t) ==
    \A i \in 1..3 :
        /\ c[i] >= (IF p[i] - t < 0 THEN 0 ELSE p[i] - t)
        /\ c[i] <= (IF p[i] + t > 255 THEN 255 ELSE p[i] + t)

\* C5: what either path returns is decided by the saturating window: the
\* index path returns the first table colour inside the window of the pixel
\* and None when there is none, the RGB path returns a template colour inside
\* the window for tolerance 8 and None when there is none, and at tolerance 8
\* both closures accept the same template colours.
C5_SaturatingWindow ==
    /\ pc = "matched_index" =>
          /\ match_index # None =>
                /\ MathWindow(Chunk(TemplateTable, match_index[1]), pixel, tolerance)
                /\ \A n \in 0..(match_index[1] - 1) :
                      ~MathWindow(Chunk(TemplateTable, n), pixel, tolerance)
          /\ match_index = None =>
                \A n \in 0..255 : ~MathWindow(Chunk(TemplateTable, n), pixel, tolerance)
    /\ pc = "matched_rgb" =>
          /\ match_rgb # None =>
                /\ \E k \in 0..16 : match_rgb[1] = TemplateSlot(k)
                /\ MathWindow(match_rgb[1], pixel, 8)
          /\ match_rgb = None =>
                \A k \in 0..16 : ~MathWindow(TemplateSlot(k), pixel, 8)
    /\ \A k \in 0..16 :
          InWindow(TemplateSlot(k), pixel, 8) <=> ColorImageMatches(TemplateSlot(k), pixel)

\* lcd_off (255, 0, 255) seen as (255, 8, 255): the window saturates at 255
C5_Witness ==
    /\ pc = "matched_index"
    /\ pixel = <<255, 8, 255>>
    /\ tolerance = 8
    /\ match_index = Some(16)

\* the smallest per-channel distance between two distinct template colours
Abs(v) == IF v < 0 THEN -v ELSE v

ChannelDistance(a, b) == Max({ Abs(a[i] - b[i]) : i \in 1..3 })

MinTemplateDistance ==
    Min({ ChannelDistance(TemplateSlot(a), TemplateSlot(b)) :
            a \in 0..16, b \in 0..16 } \ {0})

\* C6 as stated: a pixel equal to the colour of template slot k is matched to
\* slot k whatever the tolerance.
C6_ExactMatchAnyTolerance ==
    pc = "matched_index" =>
        \A k \in 0..16 : pixel = TemplateSlot(k) => match_index = Some(k)

\* C6 amended: a pixel equal to the colour of template slot k is matched to
\* slot k for every tolerance below the smallest distance between two template
\* colours (32), the default 8 of both paths included.
C6_ExactMatchSmallTolerance ==
    /\ MinTemplateDistance = 32
    /\ pc = "matched_index" =>
          \A k \in 0..16 :
              (pixel = TemplateSlot(k) /\ tolerance < MinTemplateDistance)
                  => match_index = Some(k)
    /\ pc = "matched_rgb" =>
          \A k \in 0..16 :
              pixel = TemplateSlot(k) =>
                  /\ match_rgb = Some(pixel)
                  /\ TemplateColors(PaletteDefault)[pixel] = SlotNames[k + 1]

C6_Witness ==
    /\ pc = "matched_index"
    /\ pixel = TemplateSlot(1)
    /\ tolerance = 31
    /\ match_index = Some(1)

\* C7: a pixel outside the tolerance window of all 17 template colours gets
\* None from the matcher.
C7_NoneOutsideAllWindows ==
    pc = "matched_index" =>
        ((\A k \in 0..16 : ~MathWindow(TemplateSlot(k), pixel, tolerance))
            => match_index = None)

----------------------------------------------------------------------------
(* image_handler.rs: recolouring one decoded image *)

\* largest source image tried
MaxWidth == 5

MaxHeight == 4

\* largest step between the sample colours of consecutive pixels
MaxStride == 1

\* colours a screenshot is made of: the 17 template colours in declaration
\* order, then colours near to and far from them
PixelList ==
    Slots(PaletteDefault) \o
    << <<255, 255, 255>>, <<8, 8, 8>>, <<9, 9, 9>>, <<40, 24, 32>>,
       <<250, 247, 255>>, <<200, 100, 50>>, <<136, 255, 120>>, <<0, 0, 0>> >>

StartSamples == {0, 8, 13, 17, 20}

ScaleSamples == {0, 1, 2, 21}

\* the image of w x h pixels whose pixel number i, row by row, is sample
\* start + i * stride
SampleImage(w, h, start, stride) ==
    [ width  |-> w,
      height |-> h,
      px     |-> [ q \in (0..(w - 1)) \X (0..(h - 1)) |->
                     PixelList[((start + (q[2] * w + q[1]) * stride) % Len(PixelList)) + 1] ] ]

InputImages ==
    { SampleImage(w, h, start, stride) :
        w \in 1..MaxWidth, h \in 1..MaxHeight, start \in StartSamples, stride \in 0..MaxStride }

\* the palettes the output is coloured with
TargetPalettes == { BuildPalette(RawFile(56, seed)) : seed \in 0..MaxSeed }

\* GenericImageView::pixels: (x, y, colour) row by row, x running fastest;
\* to_rgb() drops the alpha channel, which the model does not carry
Pixels(img) ==
    [ i \in 1..(img.width * img.height) |->
        LET x == (i - 1) % img.width
            y == (i - 1) \div img.width
        IN  << x, y, img.px[<<x, y>>] >> ]

\* ImageHandler::find_unique_colors
find_unique_colors(img) == { Pixels(img)[i][3] : i \in 1..(img.width * img.height) }

CoverageMessageStrict(colors) ==
    [ level      |-> IF Cardinality(colors) * 10000 > 100 * 100 * ALMOST_ALL_COLORS
                     THEN "info" ELSE "warn",
      count      |-> Cardinality(colors),
      percentage |-> (Cardinality(colors) * 10000) \div ALMOST_ALL_COLORS ]

\* the coverage test of palettize_image and color_image; percentage is
\* colors.len() / 16 * 100 in hundredths of a percent, which is exact in f32
\* for the counts an image can hold
CoverageMessage(colors) ==
    [ level      |-> IF Cardinality(colors) * 10000 >= 100 * 100 * ALMOST_ALL_COLORS
                     THEN "info" ELSE "warn",
      count      |-> Cardinality(colors),
      percentage |-> (Cardinality(colors) * 10000) \div ALMOST_ALL_COLORS ]

InitRecolor ==
    /\ pc = "start"
    /\ file = << >>
    /\ file_origin = "input"
    /\ palette \in TargetPalettes
    /\ footer_log = "none"
    /\ ops = 0
    /\ MatcherIdle
    /\ image \in InputImages
    /\ output_scale \in ScaleSamples
    /\ coverage_log = None
    /\ position = 0
    /\ image_buffer = << >>
    /\ output_image = NoImage
    /\ processed = 0
    /\ skipped = 0
    /\ match_log = None
    /\ written = None
    /\ TieIdle
    /\ PngIdle
    /\ BatchIdle

\* palettize_image up to the loop: the coverage message, the template table
\* and the buffer vec![255; width * height]
PalettizeStart ==
    /\ pc = "start"
    /\ coverage_log' = Some(CoverageMessage(find_unique_colors(image)))
    /\ image_buffer' = [ i \in 1..(image.width * image.height) |-> 255 ]
    /\ position' = 0
    /\ pc' = "palettize_loop"
    /\ UNCHANGED <<file, file_origin, palette, footer_log, ops>>
    /\ UNCHANGED matcherVars
    /\ UNCHANGED extraVars
    /\ UNCHANGED <<image, output_scale, output_image, processed, skipped, match_log, written>>

\* palettize_image: one turn of the loop over image.pixels()
PalettizePixel ==
    /\ pc = "palettize_loop"
    /\ position < image.width * image.height
    /\ LET color       == Pixels(image)[position + 1][3]
           color_index == index_of_with_tolerance(DefaultTemplatePng, color, 8)
       IN  image_buffer' = IF color_index # None
                           THEN [image_buffer EXCEPT ![position + 1] = color_index[1] % 256]
                           ELSE image_buffer
    /\ position' = position + 1
    /\ UNCHANGED <<pc, file, file_origin, palette, footer_log, ops>>
    /\ UNCHANGED matcherVars
    /\ UNCHANGED extraVars
    /\ UNCHANGED <<image, output_scale, coverage_log, output_image, processed, skipped,
                   match_log, written>>

\* color_images: palettize_image returns, the target palette is padded to 256
\* entries and PngHelper::save gets the buffer with the size of the source
SavePng ==
    /\ pc = "palettize_loop"
    /\ position = image.width * image.height
    /\ written' = Some([ width   |-> image.width,
                         height  |-> image.height,
                         palette |-> PngPaletteFrom(palette).pal,
                         data    |-> image_buffer ])
    /\ pc' = "png_saved"
    /\ UNCHANGED <<file, file_origin, palette, footer_log, ops>>
    /\ UNCHANGED matcherVars
    /\ UNCHANGED extraVars
    /\ UNCHANGED <<image, output_scale, coverage_log, position, image_buffer, output_image,
                   processed, skipped, match_log>>

\* DynamicImage::resize(nwidth, nheight, FilterType::Nearest) for a size that
\* is an exact multiple of the source: every pixel takes the nearest source pixel
ResizeNearest(img, nwidth, nheight) ==
    [ width  |-> nwidth,
      height |-> nheight,
      px     |-> [ q \in (0..(nwidth - 1)) \X (0..(nheight - 1)) |->
                     img.px[<< (q[1] * img.width) \div nwidth,
                               (q[2] * img.height) \div nheight >>] ] ]

\* the message about the ratio of recoloured pixels at the end of color_image
MatchMessage(done, left) ==
    [ level      |-> IF done * 100 >= 100 * (done + left) THEN "info" ELSE "warn",
      processed  |-> done,
      total      |-> done + left ]

\* color_image up to the loop: the coverage message and the clone of the image
ColorImageStart ==
    /\ pc = "start"
    /\ coverage_log' = Some(CoverageMessage(find_unique_colors(image)))
    /\ output_image' = image
    /\ processed' = 0
    /\ skipped' = 0
    /\ position' = 0
    /\ pc' = "color_loop"
    /\ UNCHANGED <<file, file_origin, palette, footer_log, ops>>
    /\ UNCHANGED matcherVars
    /\ UNCHANGED extraVars
    /\ UNCHANGED <<image, output_scale, image_buffer, match_log, written>>

\* color_image: one turn of the loop over image.pixels()
ColorImagePixel ==
    /\ pc = "color_loop"
    /\ position < image.width * image.height
    /\ LET pix             == Pixels(image)[position + 1]
           x               == pix[1]
           y               == pix[2]
           color_rgb       == pix[3]
           template_colors == TemplateColors(PaletteDefault)
           palette_colors  == PaletteColors(palette)
       IN  \E result \in ColorImageFind(template_colors, color_rgb) :
              IF result # None
              THEN LET value     == template_colors[result[1]]
                       new_color == palette_colors[value]
                   IN  /\ output_image' =
                             [output_image EXCEPT !.px[<<x, y>>] = new_color]
                       /\ processed' = processed + 1
                       /\ skipped' = skipped
              ELSE /\ skipped' = skipped + 1
                   /\ UNCHANGED <<output_image, processed>>
    /\ position' = position + 1
    /\ UNCHANGED <<pc, file, file_origin, palette, footer_log, ops>>
    /\ UNCHANGED matcherVars
    /\ UNCHANGED extraVars
    /\ UNCHANGED <<image, output_scale, coverage_log, image_buffer, match_log, written>>

\* color_image after the loop: the scale test, the resize and the ratio message
ColorImageFinish ==
    /\ pc = "color_loop"
    /\ position = image.width * image.height
    /\ IF ~(output_scale \in 1..20)
       THEN /\ pc' = "panic_scale"
            /\ UNCHANGED <<output_image, match_log>>
       ELSE /\ output_image' = ResizeNearest(output_image,
                                             output_image.width * output_scale,
                                             output_image.height * output_scale)
            /\ match_log' = Some(MatchMessage(processed, skipped))
            /\ pc' = "colored"
    /\ UNCHANGED <<file, file_origin, palette, footer_log, ops>>
    /\ UNCHANGED matcherVars
    /\ UNCHANGED extraVars
    /\ UNCHANGED <<image, output_scale, coverage_log, position, image_buffer,
                   processed, skipped, written>>

NextRecolor ==
    \/ PalettizeStart
    \/ PalettizePixel
    \/ SavePng
    \/ ColorImageStart
    \/ ColorImagePixel
    \/ ColorImageFinish

SpecRecolor == InitRecolor /\ [][NextRecolor]_vars

----------------------------------------------------------------------------
(* Claims about the recolouring, checked under SpecRecolor *)

\* some template slot lies in the window of colour c for the tolerance 8
\* that palettize_image passes
SomeSlotMatches(c) == \E k \in 0..16 : MathWindow(TemplateSlot(k), c, 8)

\* C8: the buffer handed to the writer has width * height entries, each a
\* slot index 0..16 or the sentinel 255, and an entry is 255 exactly when no
\* template slot matches its pixel.
C8_IndexBufferContents ==
    pc = "png_saved" =>
        LET data == written[1].data
        IN  /\ Len(data) = image.width * image.height
            /\ \A x \in 0..(image.width - 1), y \in 0..(image.height - 1) :
                  LET entry == data[y * image.width + x + 1]
                  IN  /\ entry \in (0..16) \cup {255}
                      /\ entry = 255 <=> ~SomeSlotMatches(image.px[<<x, y>>])

\* C9: a pixel at (x, y) that has the colour of template slot k gives k at
\* position y * width + x of the buffer, and entry k of the 256-entry palette
\* written with it is slot k of the target palette.
C9_DeclarationOrder ==
    pc = "png_saved" =>
        /\ \A x \in 0..(image.width - 1), y \in 0..(image.height - 1), k \in 0..16 :
              image.px[<<x, y>>] = TemplateSlot(k)
                  => written[1].data[y * image.width + x + 1] = k
        /\ Len(written[1].palette) = 256 * 3
        /\ \A k \in 0..16 : Chunk(written[1].palette, k) = Slots(palette)[k + 1]

C9_Witness ==
    /\ pc = "png_saved"
    /\ image.width = 5 /\ image.height = 4
    /\ image.px[<<1, 1>>] = TemplateSlot(6)
    /\ written[1].data[1 * 5 + 1 + 1] = 6
    /\ image.px[<<0, 3>>] = TemplateSlot(15)
    /\ written[1].data[3 * 5 + 0 + 1] = 15

\* the distinct colours of the source image
DistinctColours == { image.px[q] : q \in DOMAIN image.px }

\* C10: both paths report coverage before any pixel is matched, as the number
\* of distinct colours over 16 (in hundredths of a percent); the 16
\* non-lcd_off template colours give 100% without a warning, 8 colours give 50%
\* with a warning, the warning is raised exactly under 100%, and the only
\* failure of a recolouring is the scale test, whatever the coverage.
C10_CoverageReport ==
    /\ pc = "start" => (coverage_log = None /\ position = 0)
    /\ pc # "start" =>
          /\ coverage_log # None
          /\ coverage_log[1].count = Cardinality(DistinctColours)
          /\ coverage_log[1].percentage * 16 = Cardinality(DistinctColours) * 100 * 100
          /\ coverage_log[1].level = "warn" <=> coverage_log[1].percentage < 100 * 100
          /\ coverage_log[1].level = "info" <=> coverage_log[1].percentage >= 100 * 100
          /\ DistinctColours = { TemplateSlot(k) : k \in 0..15 }
                => (coverage_log[1].percentage = 100 * 100 /\ coverage_log[1].level = "info")
          /\ Cardinality(DistinctColours) = 8
                => (coverage_log[1].percentage = 50 * 100 /\ coverage_log[1].level = "warn")
    /\ pc \in {"start", "palettize_loop", "png_saved", "color_loop", "colored", "panic_scale"}
    /\ pc = "panic_scale" => ~(output_scale \in 1..20)
    /\ (pc = "color_loop" /\ position = image.width * image.height /\ output_scale \in 1..20)
          => ENABLED ColorImageFinish
    /\ (pc = "palettize_loop" /\ position = image.width * image.height) => ENABLED SavePng

C10_Witness ==
    /\ pc = "png_saved"
    /\ Cardinality(DistinctColours) = 8
    /\ coverage_log[1].level = "warn"
    /\ coverage_log[1].percentage = 50 * 100

\* the complementary case of C10: the 16 template colours, no warning
C10_FullCoverage ==
    /\ pc = "colored"
    /\ DistinctColours = { TemplateSlot(k) : k \in 0..15 }
    /\ coverage_log[1].level = "info"

----------------------------------------------------------------------------
(* Claims about the scale factor, checked under SpecRecolor *)

\* C11: a rejected scale factor (0 in either path, anything outside 1..20 in
\* the RGB path) ends the recolouring without an output image.
C11_InvalidScaleRejected ==
    /\ output_scale = 0 => (pc # "png_saved" /\ written = None)
    /\ output_scale = 0 => pc # "colored"
    /\ pc = "colored" => output_scale \in 1..20

\* C12: for a factor f in 1..20 the image handed to the writer is
\* (w * f) x (h * f) and its entry (X, Y) is the entry (X div f, Y div f) of
\* the index buffer of the source.
C12_ScaledOutput ==
    (pc = "png_saved" /\ output_scale \in 1..20) =>
        LET f == output_scale
            w == image.width
            h == image.height
            out == written[1]
        IN  /\ out.width = w * f
            /\ out.height = h * f
            /\ Len(out.data) = (w * f) * (h * f)
            /\ \A X \in 0..(w * f - 1), Y \in 0..(h * f - 1) :
                  out.data[Y * (w * f) + X + 1] = image_buffer[(Y \div f) * w + (X \div f) + 1]

----------------------------------------------------------------------------
(* The two paths compared, checked under SpecRecolor *)

\* pixel (x, y) has been visited by the loop over image.pixels()
Visited(x, y) == y * image.width + x < position

\* template.index_of_with_tolerance(color, 8) of palettize_image, for every
\* colour a sample image can hold
PixelIndex ==
    [ c \in { PixelList[i] : i \in DOMAIN PixelList } |->
        index_of_with_tolerance(DefaultTemplatePng, c, 8) ]

\* C20: for a pixel that matches a template slot, the colour found in the
\* written palette under the index palettize_image stored is the colour
\* color_image puts there, the target palette's colour of the matched slot
\* name; color_image counts every visited pixel once, as processed or as
\* skipped, and leaves a skipped pixel as it was.
C20_PathsAgree ==
    /\ pc = "png_saved" =>
          \A x \in 0..(image.width - 1), y \in 0..(image.height - 1), k \in 0..16 :
              MathWindow(TemplateSlot(k), image.px[<<x, y>>], 8) =>
                  Chunk(written[1].palette, written[1].data[y * image.width + x + 1])
                      = PaletteColors(palette)[SlotNames[k + 1]]
    /\ pc = "color_loop" =>
          /\ processed + skipped = position
          /\ processed = Cardinality({ q \in DOMAIN image.px :
                                         Visited(q[1], q[2]) /\ SomeSlotMatches(image.px[q]) })
          /\ \A q \in DOMAIN image.px :
                IF Visited(q[1], q[2]) /\ SomeSlotMatches(image.px[q])
                THEN output_image.px[q] =
                        Chunk(PngPaletteFrom(palette).pal, PixelIndex[image.px[q]][1])
                ELSE output_image.px[q] = image.px[q]
    /\ pc = "colored" =>
          /\ match_log[1].total = image.width * image.height
          /\ match_log[1].processed = processed
          /\ processed + skipped = image.width * image.height

C20_Witness ==
    /\ pc = "color_loop"
    /\ position = image.width * image.height
    /\ processed > 0
    /\ skipped > 0
    /\ \E q \in DOMAIN image.px :
          /\ image.px[q] = <<40, 24, 32>>
          /\ output_image.px[q] = Slots(palette)[2]
          /\ output_image.px[q] # image.px[q]

-----------------------------------------------------------------------------
(* png_helper.rs: building a PngPalette incrementally *)

MaxPngCalls == 3

\* PngPalette::new
PngPaletteNew == [ pal |-> [ i \in 1..SIZE |-> 255 ], index |-> 0 ]

\* PngPalette::set: the table after the call and the value returned
PngPaletteSet(self, index, color) ==
    IF index < 256
    THEN [ self |-> [ self EXCEPT !.pal =
                        [ i \in 1..SIZE |->
                            IF i = index * 3 + 1 THEN color[1]
                            ELSE IF i = index * 3 + 2 THEN color[2]
                            ELSE IF i = index * 3 + 3 THEN color[3]
                            ELSE self.pal[i] ] ],
           ret  |-> TRUE ]
    ELSE [ self |-> self, ret |-> FALSE ]

\* PngPalette::push
PngPalettePush(self, color) ==
    LET value == PngPaletteSet(self, self.index, color)
    IN  IF value.ret
        THEN [ self |-> [ value.self EXCEPT !.index = self.index + 1 ], ret |-> TRUE ]
        ELSE value

\* the table after n <= 256 pushes of color on a new PngPalette
Pushed(n, color) ==
    [ pal   |-> [ i \in 1..SIZE |-> IF i <= 3 * n THEN color[((i - 1) % 3) + 1] ELSE 255 ],
      index |-> n ]

\* colours handed to push and set
PngColors == { <<1, 2, 3>>, <<200, 100, 50>> }

\* indices handed to set
PngIndices == { 0, 16, 17, 255, 256, 300 }

\* byte slices handed to TryFrom: empty, not a multiple of three, a whole
\* template, the longest accepted and the shortest rejected
PngSlices ==
    { << >>, <<7, 7, 7, 7>>, PaletteToVec(PaletteDefault),
      [ i \in 1..(SIZE - 1) |-> 7 ], [ i \in 1..SIZE |-> 7 ] }

\* the record of a call: what was called with what, what it returned, and the
\* table and the populated entries it found
PngCall(op, index, color, ret, before, populated, n) ==
    [ op |-> op, index |-> index, color |-> color, ret |-> ret,
      before |-> before, populated |-> populated, n |-> n ]

\* the entries a slice of len bytes populates
SliceEntries(len) == 0..(((len + 2) \div 3) - 1)

\* either nothing is built yet, or a new table has been pushed to 255 times
InitPngPalette ==
    /\ pc = "start"
    /\ file = << >>
    /\ file_origin = "input"
    /\ palette = NoPalette
    /\ footer_log = "none"
    /\ ops = 0
    /\ MatcherIdle
    /\ RecolorIdle
    /\ TieIdle
    /\ BatchIdle
    /\ \/ PngIdle
       \/ /\ png = Some(Pushed(255, <<255, 255, 255>>))
          /\ png_populated = 0..254
          /\ png_last = PngCall("push", 254, <<255, 255, 255>>, TRUE,
                                Pushed(254, <<255, 255, 255>>), 0..253, 0)

\* PngPalette::new()
New ==
    /\ png = None /\ png_last = None
    /\ png' = Some(PngPaletteNew)
    /\ png_populated' = {}
    /\ png_last' = PngCall("new", 0, << >>, TRUE, None, {}, 0)
    /\ UNCHANGED <<codecVars, matcherVars, recolorVars, tieVars, batchVars>>

\* PngPalette::from(palette)
FromPalette ==
    /\ png = None /\ png_last = None
    /\ \E p \in TargetPalettes \cup {PaletteDefault} :
          png' = Some(PngPaletteFrom(p))
    /\ png_populated' = 0..16
    /\ png_last' = PngCall("from", 0, << >>, TRUE, None, {}, 0)
    /\ UNCHANGED <<codecVars, matcherVars, recolorVars, tieVars, batchVars>>

\* PngPalette::try_from(value)
TryFromSlice ==
    /\ png = None /\ png_last = None
    /\ \E value \in PngSlices :
          LET r == PngPaletteTryFrom(value)
          IN  IF "err" \in DOMAIN r
              THEN /\ png' = None
                   /\ png_populated' = {}
                   /\ png_last' = PngCall("try_from", 0, << >>, FALSE, None, {}, 0)
              ELSE /\ png' = Some(r)
                   /\ png_populated' = SliceEntries(Len(value))
                   /\ png_last' = PngCall("try_from", 0, << >>, TRUE, None, {}, 0)
    /\ UNCHANGED <<codecVars, matcherVars, recolorVars, tieVars, batchVars>>

\* self.push(color)
Push ==
    /\ png # None
    /\ png_last.n < MaxPngCalls
    /\ \E color \in PngColors :
          LET r == PngPalettePush(png[1], color)
          IN  /\ png' = Some(r.self)
              /\ png_populated' = IF r.ret THEN png_populated \cup {png[1].index}
                                           ELSE png_populated
              /\ png_last' = PngCall("push", png[1].index, color, r.ret, png[1],
                                     png_populated, png_last.n + 1)
    /\ UNCHANGED <<codecVars, matcherVars, recolorVars, tieVars, batchVars>>

\* self.set(index, color)
SetEntry ==
    /\ png # None
    /\ png_last.n < MaxPngCalls
    /\ \E index \in PngIndices, color \in PngColors :
          LET r == PngPaletteSet(png[1], index, color)
          IN  /\ png' = Some(r.self)
              /\ png_populated' = png_populated
              /\ png_last' = PngCall("set", index, color, r.ret, png[1],
                                     png_populated, png_last.n + 1)
    /\ UNCHANGED <<codecVars, matcherVars, recolorVars, tieVars, batchVars>>

NextPngPalette == New \/ FromPalette \/ TryFromSlice \/ Push \/ SetEntry

SpecPngPalette == InitPngPalette /\ [][NextPngPalette]_vars

\* C17: the cursor is at most 256 and designates a slot that neither the
\* construction nor a push has populated; a push writes its colour at the cursor,
\* touches no other entry, advances the cursor by one and does not overwrite a
\* populated entry; a push at cursor 256 and a set with an index of 256 or
\* more return false and leave table and cursor as they were
C17_CursorNextFree ==
    png # None =>
        /\ png[1].index <= 256
        /\ png[1].index < 256 => png[1].index \notin png_populated
        /\ (png_last.op = "push" /\ png_last.before.index < 256) =>
              /\ png_last.ret
              /\ png[1].index = png_last.before.index + 1
              /\ Chunk(png[1].pal, png_last.index) = png_last.color
              /\ png_last.index = png_last.before.index
              /\ png_last.index \notin png_last.populated
              /\ \A n \in 0..255 : n # png_last.index =>
                    Chunk(png[1].pal, n) = Chunk(png_last.before.pal, n)
        /\ (png_last.op = "push" /\ png_last.before.index >= 256) =>
              ~png_last.ret /\ png[1] = png_last.before
        /\ (png_last.op = "set" /\ png_last.index >= 256) =>
              ~png_last.ret /\ png[1] = png_last.before

\* the part of C17 that does not depend on where the construction leaves the
\* cursor: what push and set write and return
C17_PushSetContract ==
    png # None =>
        /\ png[1].index <= 256
        /\ (png_last.op = "push" /\ png_last.before.index < 256) =>
              /\ png_last.ret
              /\ png[1].index = png_last.before.index + 1
              /\ Chunk(png[1].pal, png_last.before.index) = png_last.color
        /\ (png_last.op = "push" /\ png_last.before.index >= 256) =>
              ~png_last.ret /\ png[1] = png_last.before
        /\ (png_last.op = "set" /\ png_last.index >= 256) =>
              ~png_last.ret /\ png[1] = png_last.before

\* a table converted from a Palette has been pushed to, and the push has
\* replaced the colour of slot 0
C17_Overwrite ==
    /\ png # None
    /\ png_last.op = "push" /\ png_last.ret
    /\ png_last.index = 0 /\ 0 \in png_last.populated
    /\ Chunk(png_last.before.pal, 0) = Slots(PaletteDefault)[1]
    /\ Chunk(png[1].pal, 0) = <<1, 2, 3>>

\* a push has been refused at cursor 256
C17_FullTable ==
    /\ png # None
    /\ png_last.op = "push" /\ ~png_last.ret
    /\ png[1].index = 256

-----------------------------------------------------------------------------
(* The matcher on templates whose slots are close to one another, evaluated twice *)

\* the default template with bg[1] moved to within 4 of bg[0]
CloseTemplate == [ PaletteDefault EXCEPT !.bg[2] = Shifted(PaletteDefault.bg[1], 4) ]

\* the default template with obj0[0] equal to bg[0]
TwinTemplate == [ PaletteDefault EXCEPT !.obj0[1] = PaletteDefault.bg[1] ]

TieTemplates == { PaletteDefault, CloseTemplate, TwinTemplate }

\* pixels on and between the colours of bg[0] and bg[1] of CloseTemplate, a
\* colour of the default template, and white
TiePixels ==
    { Shifted(PaletteDefault.bg[1], d) : d \in {0, 2, 4, 12, 13} }
        \cup { PaletteDefault.bg[3], PaletteDefault.lcd_off, <<255, 255, 255>> }

TieTolerances == { 0, 8, 16, 255 }

InitTieBreak ==
    /\ pc = "start"
    /\ file = << >>
    /\ file_origin = "input"
    /\ palette = NoPalette
    /\ footer_log = "none"
    /\ ops = 0
    /\ pixel \in TiePixels
    /\ tolerance \in TieTolerances
    /\ match_index = None
    /\ match_rgb = None
    /\ RecolorIdle
    /\ template \in TieTemplates
    /\ match_index_again = None
    /\ match_rgb_again = None
    /\ PngIdle
    /\ BatchIdle

\* the index path a second time, on a PngPalette made from the same template
IndexOfWithToleranceAgain ==
    /\ pc = "matched_index"
    /\ pc' = "matched_index_twice"
    /\ match_index_again' =
          index_of_with_tolerance(PngPaletteFrom(template), pixel, tolerance)
    /\ UNCHANGED <<file, file_origin, palette, footer_log, ops, pixel, tolerance,
                   match_index, match_rgb, template, match_rgb_again>>
    /\ UNCHANGED <<recolorVars, pngVars, batchVars>>

\* the RGB path a second time, on a colour map built again from the same
\* template: the keys of the new HashMap iterate in an order of their own
ColorImageFindKeyAgain ==
    /\ pc = "matched_rgb"
    /\ pc' = "matched_rgb_twice"
    /\ match_rgb_again' \in ColorImageFind(TemplateColors(template), pixel)
    /\ UNCHANGED <<file, file_origin, palette, footer_log, ops, pixel, tolerance,
                   match_index, match_rgb, template, match_index_again>>
    /\ UNCHANGED <<recolorVars, pngVars, batchVars>>

NextTieBreak ==
    \/ IndexOfWithTolerance
    \/ ColorImageFindKey
    \/ IndexOfWithToleranceAgain
    \/ ColorImageFindKeyAgain

SpecTieBreak == InitTieBreak /\ [][NextTieBreak]_vars

\* the slots 0..16 of the template whose colour is within tol of the pixel
SlotHits(tol) == { k \in 0..16 : InWindow(Slots(template)[k + 1], pixel, tol) }

\* C18: two evaluations with the same template, pixel and tolerance return the
\* same slot, and when several slots are within the tolerance the one returned
\* is the earliest in declaration order, in the index path and in the RGB path
C18_FirstMatchDeclarationOrder ==
    /\ (pc \in {"matched_index", "matched_index_twice"} /\ SlotHits(tolerance) # {}) =>
          match_index = Some(Min(SlotHits(tolerance)))
    /\ pc = "matched_index_twice" => match_index_again = match_index
    /\ (pc \in {"matched_rgb", "matched_rgb_twice"}
            /\ SlotHits(TEMPLATE_TOLERANCE_UPPER) # {}) =>
          /\ match_rgb # None
          /\ TemplateColors(template)[match_rgb[1]]
                = SlotNames[Min(SlotHits(TEMPLATE_TOLERANCE_UPPER)) + 1]
    /\ pc = "matched_rgb_twice" => match_rgb_again = match_rgb

\* the index path alone does what C18 says
C18_IndexPath ==
    /\ (pc \in {"matched_index", "matched_index_twice"} /\ SlotHits(tolerance) # {}) =>
          match_index = Some(Min(SlotHits(tolerance)))
    /\ pc = "matched_index_twice" => match_index_again = match_index

\* the RGB path does what C18 says on the default template, where no two
\* slots are within 8 of the same pixel
C18_RgbPathDefaultTemplate ==
    (template = PaletteDefault /\ pc \in {"matched_rgb", "matched_rgb_twice"}) =>
        /\ Cardinality(SlotHits(TEMPLATE_TOLERANCE_UPPER)) <= 1
        /\ SlotHits(TEMPLATE_TOLERANCE_UPPER) # {} =>
              /\ match_rgb # None
              /\ TemplateColors(template)[match_rgb[1]]
                    = SlotNames[Min(SlotHits(TEMPLATE_TOLERANCE_UPPER)) + 1]
        /\ pc = "matched_rgb_twice" => match_rgb_again = match_rgb

\* the RGB path has returned bg_1 for a pixel that bg_0 matches as well
C18_LaterSlotReturned ==
    /\ pc = "matched_rgb"
    /\ template = CloseTemplate
    /\ pixel = Shifted(PaletteDefault.bg[1], 2)
    /\ SlotHits(TEMPLATE_TOLERANCE_UPPER) = {0, 1}
    /\ TemplateColors(template)[match_rgb[1]] = "bg_1"

\* two evaluations of the RGB path have returned different slots
C18_TwoAnswers ==
    /\ pc = "matched_rgb_twice"
    /\ match_rgb_again # match_rgb

-----------------------------------------------------------------------------
(* image_handler.rs: a batch, use_palettes_to_color_images over color_images *)

\* the image files on disk, by number in the order of their paths: whether
\* Reader::open(..).decode() succeeds, and the size of the decoded image
ImageFiles ==
    << [ ok |-> TRUE,  width |-> 4, height |-> 4 ],
       [ ok |-> FALSE, width |-> 0, height |-> 0 ],
       [ ok |-> TRUE,  width |-> 4, height |-> 4 ],
       [ ok |-> TRUE,  width |-> 2, height |-> 1 ] >>

\* the palette files on disk, by number in the order of their paths: the path,
\* cut into pieces at '/' and before the extension, and the bytes
PalFiles ==
    << [ name |-> <<"a", ".pal">>,           data |-> RawFile(56, 0) ],
       [ name |-> <<"bad", ".pal">>,         data |-> RawFile(55, 0) ],
       [ name |-> <<"p", "/", "b", ".pal">>, data |-> RawFile(56, 1) ] >>

\* a path given literally, and a pattern with a '*' and the files it matches
Lit(i) == [ star |-> FALSE, files |-> {i} ]

Star(S) == [ star |-> TRUE, files |-> S ]

\* Vec::sort of a set of file numbers
RECURSIVE SortedSeq(_)
SortedSeq(S) ==
    IF S = {} THEN << >> ELSE <<Min(S)>> \o SortedSeq(S \ {Min(S)})

\* Helpers::glob_paths: every pattern expanded, then unique(), then sort()
glob_paths(paths) ==
    SortedSeq(UNION { paths[i].files : i \in DOMAIN paths })

\* str::to_lowercase on the pieces output names are made of
Lower(piece) ==
    IF piece = "OUT" THEN "out" ELSE IF piece = ".PNG" THEN ".png" ELSE piece

to_lowercase(s) == [ i \in DOMAIN s |-> Lower(s[i]) ]

\* str::ends_with for a suffix that is one piece
ends_with(s, piece) == Len(s) > 0 /\ s[Len(s)] = piece

\* str::replace: every occurrence of the piece from is replaced by the pieces to
RECURSIVE replace(_, _, _)
replace(s, from, to) ==
    IF s = << >> THEN << >>
    ELSE (IF Head(s) = from THEN to ELSE <<Head(s)>>) \o replace(Tail(s), from, to)

\* the path as one string
RECURSIVE Concat(_)
Concat(s) == IF s = << >> THEN "" ELSE Head(s) \o Concat(Tail(s))

\* format!("{:03}", counter)
Pad3(counter) ==
    IF counter < 10 THEN "00" \o ToString(counter)
    ELSE IF counter < 100 THEN "0" \o ToString(counter)
    ELSE ToString(counter)

\* use_palettes_to_color_images: the output name handed to color_images for
\* the palette file pal, one of n
PaletteOutputName(output, pal, n) ==
    IF n = 1
    THEN output
    ELSE LET pal_name_escaped == replace(pal, "/", <<"$">>)
         IN  replace(output, ".png", pal_name_escaped \o <<".png">>)

\* color_images: the output name of the image number counter
ImageOutputName(output, input_len, merging, counter) ==
    LET with_png == IF ends_with(to_lowercase(output), ".png")
                    THEN output
                    ELSE output \o <<".png">>
    IN  IF input_len > 1 /\ ~merging
        THEN replace(to_lowercase(with_png), ".png", <<Pad3(counter), ".png">>)
        ELSE with_png

\* Iterator::take
Take(s, n) == SubSeq(s, 1, Min({n, Len(s)}))

\* slice::chunks for a chunk size n > 0
Chunks(s, n) ==
    [ i \in 1..((Len(s) + n - 1) \div n) |->
        SubSeq(s, (i - 1) * n + 1, Min({i * n, Len(s)})) ]

\* Iterator::sum
RECURSIVE Sum(_)
Sum(s) == IF s = << >> THEN 0 ELSE Head(s) + Sum(Tail(s))

\* the merge block: the size of the merged image for the images to merge
MergedSize(images, columns, layout) ==
    LET first  == Take(images, columns)
        width  == Sum([ i \in DOMAIN first |-> first[i].width ])
        chunks == Chunks(images, columns)
        height == Sum([ i \in DOMAIN chunks |->
                          Max({ chunks[i][j].height : j \in DOMAIN chunks[i] }) ])
    IN  IF layout = "Vertical"
        THEN [ width |-> height, height |-> width ]
        ELSE [ width |-> width, height |-> height ]

\* the merge block: where the overlay puts each of the images to merge
Overlays(images, columns, layout) ==
    [ k \in DOMAIN images |->
        LET i == (k - 1) \div columns
            j == (k - 1) % columns
        IN  [ x      |-> IF layout = "Horizontal" THEN j * images[k].width
                                                   ELSE i * images[k].width,
              y      |-> IF layout = "Horizontal" THEN i * images[k].height
                                                   ELSE j * images[k].height,
              width  |-> images[k].width,
              height |-> images[k].height ] ]

\* the palette arguments of a run: one file, one file of the wrong size, two
\* files, a good and a bad file, and a pattern that matches all three
PalPatternSamples ==
    { <<Lit(1)>>, <<Lit(2)>>, <<Lit(3), Lit(1)>>, <<Lit(1), Lit(2)>>, <<Star({1, 2, 3})>> }

\* the image arguments of a run
ImagePatternSamples ==
    { <<Lit(1)>>, <<Lit(2)>>, <<Lit(1), Lit(3)>>, <<Lit(1), Lit(1)>>,
      <<Star({1, 3})>>, <<Star({1, 2, 3})>>, <<Lit(3), Lit(2), Lit(1)>>,
      <<Lit(1), Lit(4)>>, <<Star({3, 4})>> }

\* the output names of a run
OutputSamples == { <<"out", ".png">>, <<"out">>, <<"OUT", ".PNG">> }

\* --columns values tried with --merge
ColumnSamples == { 0, 1, 2 }

\* a job before it has started: images_to_merge is Vec::with_capacity(..)
NewJob ==
    [ st |-> "waiting", panic |-> "", counter |-> 0, images_to_merge |-> << >>,
      canvas |-> None, overlays |-> << >>, merged |-> None ]

InitBatch ==
    /\ pc = "start"
    /\ file = << >>
    /\ file_origin = "input"
    /\ palette = NoPalette
    /\ footer_log = "none"
    /\ ops = 0
    /\ MatcherIdle
    /\ RecolorIdle
    /\ TieIdle
    /\ PngIdle
    /\ \E pals \in PalPatternSamples : pal_files = glob_paths(pals)
    /\ input_images \in ImagePatternSamples
    /\ output_image_file \in OutputSamples
    /\ \/ merge = FALSE /\ max_columns = 4 /\ merge_layout = "Horizontal"
       \/ /\ merge = TRUE
          /\ max_columns \in ColumnSamples
          /\ merge_layout \in {"Horizontal", "Vertical"}
    /\ job = [ p \in DOMAIN pal_files |-> NewJob ]
    /\ writes = {}
    /\ process = "running"

\* the name color_images is called with for the palette file number p
JobOutputName(p) ==
    PaletteOutputName(output_image_file, PalFiles[pal_files[p]].name, Len(pal_files))

\* color_images up to the loop: Palette::load(pal_file).unwrap()
StartJob(p) ==
    /\ process = "running"
    /\ job[p].st = "waiting"
    /\ job' = IF InvalidSize(PalFiles[pal_files[p]].data)
              THEN [ job EXCEPT ![p].st = "panicked", ![p].panic = "Palette::load" ]
              ELSE [ job EXCEPT ![p].st = "running" ]
    /\ UNCHANGED <<pal_files, input_images, output_image_file, merge, max_columns,
                   merge_layout, writes, process>>
    /\ UNCHANGED <<codecVars, matcherVars, recolorVars, tieVars, pngVars>>

\* one turn of the loop of color_images: open, decode, palettize, name, save
ColorOneImage(p) ==
    /\ process = "running"
    /\ job[p].st = "running"
    /\ job[p].counter < Len(glob_paths(input_images))
    /\ LET counter == job[p].counter
           input   == glob_paths(input_images)[counter + 1]
           img     == ImageFiles[input]
           name    == ImageOutputName(JobOutputName(p), Len(input_images), merge, counter)
       IN  IF ~img.ok
           THEN /\ job' = [ job EXCEPT ![p].st = "panicked",
                                       ![p].panic = "Cannot decode image file" ]
                /\ writes' = writes
           ELSE /\ job' = [ job EXCEPT ![p].counter = counter + 1 ]
                /\ writes' = IF merge
                             THEN writes
                             ELSE writes \cup
                                    { [ job |-> p, counter |-> counter, path |-> Concat(name),
                                        width |-> img.width, height |-> img.height ] }
    /\ UNCHANGED <<pal_files, input_images, output_image_file, merge, max_columns,
                   merge_layout, process>>
    /\ UNCHANGED <<codecVars, matcherVars, recolorVars, tieVars, pngVars>>

\* color_images after the loop: the merge block when --merge is given.
\* chunks(0) panics; whether the PNG encoder accepts an image without pixels is
\* not decided by this repository, so save_image either panics or saves
FinishJob(p) ==
    /\ process = "running"
    /\ job[p].st = "running"
    /\ job[p].counter = Len(glob_paths(input_images))
    /\ IF ~merge
       THEN job' = [ job EXCEPT ![p].st = "done" ]
       ELSE IF max_columns = 0
       THEN job' = [ job EXCEPT ![p].st = "panicked",
                                ![p].panic = "chunk size must be non-zero" ]
       ELSE LET size == MergedSize(job[p].images_to_merge, max_columns, merge_layout)
                over == Overlays(job[p].images_to_merge, max_columns, merge_layout)
            IN  \/ /\ size.width = 0 \/ size.height = 0
                   /\ job' = [ job EXCEPT ![p].st = "panicked",
                                          ![p].panic = "Cannot create output file bytes",
                                          ![p].canvas = Some(size),
                                          ![p].overlays = over ]
                \/ job' = [ job EXCEPT ![p].st = "done",
                                       ![p].canvas = Some(size),
                                       ![p].overlays = over,
                                       ![p].merged = Some(Concat(JobOutputName(p))) ]
    /\ UNCHANGED <<pal_files, input_images, output_image_file, merge, max_columns,
                   merge_layout, writes, process>>
    /\ UNCHANGED <<codecVars, matcherVars, recolorVars, tieVars, pngVars>>

\* par_iter: once a job has panicked, a job the pool has not started yet may
\* never be started
SkipJob(p) ==
    /\ process = "running"
    /\ job[p].st = "waiting"
    /\ \E q \in DOMAIN job : job[q].st = "panicked"
    /\ job' = [ job EXCEPT ![p].st = "skipped" ]
    /\ UNCHANGED <<pal_files, input_images, output_image_file, merge, max_columns,
                   merge_layout, writes, process>>
    /\ UNCHANGED <<codecVars, matcherVars, recolorVars, tieVars, pngVars>>

\* use_palettes_to_color_images returns, or the panic of a job reaches main
Terminate ==
    /\ process = "running"
    /\ \A p \in DOMAIN job : job[p].st \in {"done", "panicked", "skipped"}
    /\ process' = IF \E p \in DOMAIN job : job[p].st = "panicked"
                  THEN "aborted"
                  ELSE "finished"
    /\ UNCHANGED <<pal_files, input_images, output_image_file, merge, max_columns,
                   merge_layout, job, writes>>
    /\ UNCHANGED <<codecVars, matcherVars, recolorVars, tieVars, pngVars>>

NextBatch ==
    \/ \E p \in DOMAIN job : StartJob(p)
    \/ \E p \in DOMAIN job : ColorOneImage(p)
    \/ \E p \in DOMAIN job : FinishJob(p)
    \/ \E p \in DOMAIN job : SkipJob(p)
    \/ Terminate

SpecBatch == InitBatch /\ [][NextBatch]_vars

\* the images a job has to recolor, in the order of the loop
JobImages == glob_paths(input_images)

\* the palette file of job p loads
PaletteLoads(p) == ~InvalidSize(PalFiles[pal_files[p]].data)

\* C15: without --merge, two distinct (palette, image) jobs of a run write to
\* different paths
C15_CollisionFree ==
    ~merge =>
        \A w1 \in writes, w2 \in writes :
            (w1.job # w2.job \/ w1.counter # w2.counter) => w1.path # w2.path

\* two images of one pattern have been written to the same path
C15_SamePath ==
    /\ ~merge
    /\ Len(pal_files) = 1 /\ input_images = <<Star({1, 3})>>
    /\ output_image_file = <<"out", ".png">>
    /\ \E w1 \in writes, w2 \in writes :
          w1.counter = 0 /\ w2.counter = 1 /\ w1.path = "out.png" /\ w2.path = "out.png"

\* where the names are made as documented they differ: several patterns and
\* several palette files, an output name that ends in ".png"
C15_DocumentedNames ==
    (~merge /\ Len(input_images) > 1 /\ output_image_file = <<"out", ".png">>) =>
        \A w1 \in writes, w2 \in writes :
            (w1.job # w2.job \/ w1.counter # w2.counter) => w1.path # w2.path

\* C16: when the run is over, without --merge, every job whose palette file
\* loads and whose image decodes has written its output, whatever happened to
\* the other jobs
C16_FailuresPerJob ==
    (process # "running" /\ ~merge) =>
        \A p \in DOMAIN job, k \in 0..(Len(JobImages) - 1) :
            (PaletteLoads(p) /\ ImageFiles[JobImages[k + 1]].ok) =>
                \E w \in writes : w.job = p /\ w.counter = k

\* an undecodable image has ended the run before a later image was written
C16_Aborted ==
    /\ process = "aborted" /\ ~merge
    /\ Len(pal_files) = 1 /\ PaletteLoads(1)
    /\ JobImages = <<1, 2, 3>>
    /\ job[1].panic = "Cannot decode image file"
    /\ \E w \in writes : w.counter = 0
    /\ ~\E w \in writes : w.counter = 2

\* the decoded images of a job, as the tiles of its merge
Tiles == [ k \in DOMAIN JobImages |-> ImageFiles[JobImages[k]] ]

\* every image of the run decodes, and there is at least one
TilesDecode == Len(Tiles) >= 1 /\ \A k \in DOMAIN Tiles : Tiles[k].ok

\* all tiles have the size of the first
TilesEqual ==
    \A k \in DOMAIN Tiles :
        Tiles[k].width = Tiles[1].width /\ Tiles[k].height = Tiles[1].height

\* job p has come to the end of a merge of the decoded images
MergeOver(p) ==
    /\ merge /\ max_columns >= 1
    /\ PaletteLoads(p)
    /\ TilesDecode
    /\ job[p].st \in {"done", "panicked"}

CeilDiv(n, c) == (n + c - 1) \div c

\* C13: a Horizontal merge of n >= 1 tiles of tw x th with c columns gives a
\* canvas of c*tw by ceil(n/c)*th with tile k at ((k mod c)*tw, (k div c)*th);
\* cells beyond the n tiles receive no tile
C13_HorizontalGeometry ==
    \A p \in DOMAIN job :
        (MergeOver(p) /\ TilesEqual /\ merge_layout = "Horizontal") =>
            LET n  == Len(Tiles)
                c  == max_columns
                tw == Tiles[1].width
                th == Tiles[1].height
            IN  /\ job[p].st = "done"
                /\ job[p].merged # None
                /\ job[p].canvas = Some([ width |-> c * tw, height |-> CeilDiv(n, c) * th ])
                /\ Len(job[p].overlays) = n
                /\ \A k \in 0..(n - 1) :
                      job[p].overlays[k + 1] =
                          [ x |-> (k % c) * tw, y |-> (k \div c) * th,
                            width |-> tw, height |-> th ]

\* a Horizontal merge of two 4x4 images with two columns has ended with a
\* canvas without pixels and without a tile
C13_EmptyCanvas ==
    \E p \in DOMAIN job :
        /\ MergeOver(p) /\ merge_layout = "Horizontal" /\ max_columns = 2
        /\ JobImages = <<1, 3>>
        /\ job[p].canvas = Some([ width |-> 0, height |-> 0 ])
        /\ job[p].overlays = << >>

\* C14: a merge of tiles that are not all of one size is rejected with an
\* error before the canvas is made and a tile is put on it, and no merged
\* image is written
C14_MismatchRejected ==
    \A p \in DOMAIN job :
        (MergeOver(p) /\ ~TilesEqual) =>
            /\ job[p].st = "panicked"
            /\ job[p].canvas = None
            /\ job[p].merged = None

\* a merge of a 4x4 and a 2x1 image has gone through the merge block
C14_NotRejected ==
    \E p \in DOMAIN job :
        /\ MergeOver(p)
        /\ JobImages = <<3, 4>>
        /\ job[p].canvas # None

\* the left, top, right and bottom of a tile are inside the canvas
Inside(tile, canvas) ==
    /\ 0 <= tile.x /\ tile.x + tile.width <= canvas.width
    /\ 0 <= tile.y /\ tile.y + tile.height <= canvas.height

\* two tiles share no pixel
Disjoint(a, b) ==
    \/ a.x + a.width <= b.x \/ b.x + b.width <= a.x
    \/ a.y + a.height <= b.y \/ b.y + b.height <= a.y

\* C19: in both layouts every one of the n tiles lies inside the merged canvas
\* and no two tiles overlap; in Vertical layout tile k is at
\* ((k div c)*tw, (k mod c)*th) and the canvas is that of Horizontal with
\* width and height swapped
C19_TilesInsideCanvas ==
    \A p \in DOMAIN job :
        (MergeOver(p) /\ TilesEqual) =>
            LET n  == Len(Tiles)
                c  == max_columns
                tw == Tiles[1].width
                th == Tiles[1].height
                over == job[p].overlays
            IN  /\ job[p].canvas # None
                /\ Len(over) = n
                /\ \A k \in DOMAIN over : Inside(over[k], job[p].canvas[1])
                /\ \A k \in DOMAIN over, l \in DOMAIN over :
                      k # l => Disjoint(over[k], over[l])
                /\ merge_layout = "Vertical" =>
                      /\ job[p].canvas =
                            Some([ width |-> CeilDiv(n, c) * th, height |-> c * tw ])
                      /\ \A k \in 0..(n - 1) :
                            k < Len(over) =>
                               /\ over[k + 1].x = (k \div c) * tw
                               /\ over[k + 1].y = (k % c) * th

\* a Vertical merge has ended without a tile on the canvas
C19_NoTilePlaced ==
    \E p \in DOMAIN job :
        /\ MergeOver(p) /\ TilesEqual /\ merge_layout = "Vertical"
        /\ job[p].canvas # None
        /\ job[p].overlays = << >>

\* three tiles of 2x1 as the merge block would lay them out in two columns
ThreeTiles == [ k \in 1..3 |-> [ width |-> 2, height |-> 1 ] ]

\* the merge block applied to three 2x1 tiles: in Vertical layout the third
\* tile is put at x = 2 on a canvas 2 wide
C19_MergeBlockVertical ==
    /\ MergedSize(ThreeTiles, 2, "Horizontal") = [ width |-> 4, height |-> 2 ]
    /\ MergedSize(ThreeTiles, 2, "Vertical") = [ width |-> 2, height |-> 4 ]
    /\ Overlays(ThreeTiles, 2, "Vertical")[3].x = 2
    /\ ~Inside(Overlays(ThreeTiles, 2, "Vertical")[3], MergedSize(ThreeTiles, 2, "Vertical"))
    /\ \A k \in 1..3 :
          Inside(Overlays(ThreeTiles, 2, "Horizontal")[k], MergedSize(ThreeTiles, 2, "Horizontal"))

====
